---- MODULE Spec2Model ----
(***************************************************************************)
(* Model of rs-power-trigger: the autonomous RGB colour-cycling loop of    *)
(* src/main.rs (ColorState, transition_color, set_color, main).            *)
(***************************************************************************)
EXTENDS Integers, Sequences, FiniteSets, TLC

\* ---------------------------------------------------------------- bounds
\* largest value get_max_duty() may report in the model
MaxDuty == 12
\* largest channel value of the freely chosen states of StepSpec
MaxVal == 3
\* number of transition_color calls StepSpec follows
MaxSteps == 5
\* number of datagrams CmdSpec follows
MaxPackets == 7

\* ------------------------------------------------------------- constants
\* u32::MAX, the value a wrapping u32 subtraction 0 - 1 yields.  TLC's integers
\* end at 2^31 - 1, which stands for it: the model only uses that it equals no
\* smaller channel value and lies above every duty.
U32_MAX == 2147483647

Min(a, b) == IF a <= b THEN a ELSE b
Max(a, b) == IF a >= b THEN a ELSE b
Abs(a) == IF a >= 0 THEN a ELSE 0 - a

VARIABLES
    max_duty,        \* value read once from red_channel.get_max_duty()
    color_sequence,  \* the vec of target ColorStates
    current_state,   \* main's current_state
    target_state,    \* main's target_state (= color_sequence[color_index])
    color_index,     \* main's color_index (0-based, as in the code)
    pc,              \* position of the control loop
    duty,            \* duty last stored by each LEDC channel
    set_calls,       \* set_duty calls of the latest set_color: <<channel, value, ok>>
    start_state,     \* current_state when the present target was taken
    steps,           \* transition_color calls returned since then
    index,           \* ColorSelector's SelectorIndex
    packet,          \* payload of the latest datagram
    command,         \* what CommandDecoder made of it
    scenario,        \* n: the payloads so far are exactly Scenario[1..n]; else -1
    npackets,        \* number of datagrams handled
    toggles          \* number of Toggle commands handled

autoVars == <<color_sequence, current_state, target_state, color_index,
              start_state, steps>>
cmdVars == <<index, packet, command, scenario, npackets, toggles>>

vars == <<max_duty, color_sequence, current_state, target_state, color_index,
          pc, duty, set_calls, start_state, steps,
          index, packet, command, scenario, npackets, toggles>>

\* enum Color
Color == {"Red", "Green", "Blue"}

\* struct ColorState
ColorState(r, g, b) == [r |-> r, g |-> g, b |-> b]

\* ColorState::get_color / get_color_mut
get_color(self, color) ==
    CASE color = "Red" -> self.r
      [] color = "Green" -> self.g
      [] color = "Blue" -> self.b

\* u32 `value + 1' and `value - 1', wrapping at the ends of the range
add_one(value) == IF value = U32_MAX THEN 0 ELSE value + 1
sub_one(value) == IF value = 0 THEN U32_MAX ELSE value - 1

\* increment by two units and without the cap: *value + 2
increment_step2(self, color, target) ==
    add_one(add_one(get_color(self, color)))

\* ColorState::increment: (*value + 1).min(target)
increment(self, color, target) ==
    Min(add_one(get_color(self, color)), target)

\* decrement clamped from below: (*value - 1).max(target)
decrement_max(self, color, target) ==
    Max(sub_one(get_color(self, color)), target)

\* ColorState::decrement: (*value - 1).min(target)
decrement(self, color, target) ==
    Min(sub_one(get_color(self, color)), target)

\* self with one channel replaced
with_color(self, color, v) ==
    CASE color = "Red" -> [self EXCEPT !.r = v]
      [] color = "Green" -> [self EXCEPT !.g = v]
      [] color = "Blue" -> [self EXCEPT !.b = v]

\* increment that stores its result: *value = (*value + 1).min(target)
increment_self_stores(self, color, target) ==
    with_color(self, color, increment(self, color, target))

\* the receiver after increment / decrement: both take &mut self, and the
\* reference from get_color_mut is only read
increment_self(self, color, target) == self
decrement_self(self, color, target) == self

\* transform with the two comparisons interchanged
transform_branch_swapped(self, target, color) ==
    LET value == get_color(self, color) IN
    IF value = target THEN "equal"
    ELSE IF value < target THEN "decrement"
    ELSE IF value > target THEN "increment"
    ELSE "else"

\* the branch of ColorState::transform that is taken
transform_branch(self, target, color) ==
    LET value == get_color(self, color) IN
    IF value = target THEN "equal"
    ELSE IF value > target THEN "decrement"
    ELSE IF value < target THEN "increment"
    ELSE "else"

\* transform whose second test is `>=' and comes first
transform_ge(self, target, color) ==
    LET value == get_color(self, color) IN
    IF value >= target THEN decrement(self, color, target)
    ELSE increment(self, color, target)

\* ColorState::transform
transform(self, target, color) ==
    LET value == get_color(self, color)
        branch == transform_branch(self, target, color) IN
    IF branch = "equal" THEN value
    ELSE IF branch = "decrement" THEN decrement(self, color, target)
    ELSE IF branch = "increment" THEN increment(self, color, target)
    ELSE value

\* the receiver after transform (&mut self)
transform_self(self, target, color) ==
    LET branch == transform_branch(self, target, color) IN
    IF branch = "decrement" THEN decrement_self(self, color, target)
    ELSE IF branch = "increment" THEN increment_self(self, color, target)
    ELSE self

\* ColorState::target_reached
target_reached(self, target, color) == get_color(self, color) >= target

\* ColorState::compare_to_target
compare_to_target(self, target) ==
    [should_transform_red |-> ~target_reached(self, target.r, "Red"),
     should_transform_green |-> ~target_reached(self, target.g, "Green"),
     should_transform_blue |-> ~target_reached(self, target.b, "Blue")]

\* the receiver after compare_to_target (&mut self, read through get_color)
compare_to_target_self(self, target) == self

\* impl PartialEq for ColorState
eq(self, other) == self.r = other.r /\ self.g = other.g /\ self.b = other.b

\* previous_state as transition_color's calls leave it, in program order:
\* 0 after compare_to_target, then after transform of Red, Green, Blue
previous_state_after(previous_state, target, n) ==
    LET s0 == compare_to_target_self(previous_state, target)
        s1 == transform_self(s0, target.r, "Red")
        s2 == transform_self(s1, target.g, "Green")
        s3 == transform_self(s2, target.b, "Blue")
    IN CASE n = 0 -> s0 [] n = 1 -> s1 [] n = 2 -> s2 [] n = 3 -> s3

\* the flag of TransitionCommands for a channel
should_transform(commands, color) ==
    CASE color = "Red" -> commands.should_transform_red
      [] color = "Green" -> commands.should_transform_green
      [] color = "Blue" -> commands.should_transform_blue

\* transition_color that transforms only the channels whose flag is set
transition_state_gated(previous_state, target) ==
    LET commands == compare_to_target(previous_state, target)
        gated(c) == IF should_transform(commands, c)
                    THEN transform(previous_state, get_color(target, c), c)
                    ELSE get_color(previous_state, c)
    IN ColorState(gated("Red"), gated("Green"), gated("Blue"))

\* the ColorState literal built in transition_color: each field is
\* previous_state.transform(..) on previous_state as the earlier calls left it
transition_state(previous_state, target) ==
    ColorState(transform(previous_state_after(previous_state, target, 0), target.r, "Red"),
               transform(previous_state_after(previous_state, target, 1), target.g, "Green"),
               transform(previous_state_after(previous_state, target, 2), target.b, "Blue"))

\* the vec! of main
make_color_sequence(m) ==
    << ColorState(0, 0, 0),
       ColorState(m, 0, 0),
       ColorState(0, m, 0),
       ColorState(0, 0, m),
       ColorState(m, m, 0),
       ColorState(m, 0, m),
       ColorState(0, m, m),
       ColorState(m, m, m) >>

\* main's initial_state
initial_state == ColorState(1, 6, 9)

\* set_color with the g and b arguments interchanged
set_color_order_swapped(r, g, b) == << <<"Red", r>>, <<"Green", b>> , <<"Blue", g>> >>

\* set_color: red, green, blue are written in this order and `?' returns at
\* the first Err.  fail = 0: every set_duty succeeds; fail = k: the k-th fails.
set_color_order(r, g, b) == << <<"Red", r>>, <<"Green", g>> , <<"Blue", b>> >>

\* set_color that calls all three set_duty before it looks at the Results
set_color_duty_continue(d, r, g, b, fail) ==
    LET o == set_color_order(r, g, b)
    IN [c \in Color |->
          IF \E k \in 1..3 : k # fail /\ o[k][1] = c
          THEN o[CHOOSE k \in 1..3 : o[k][1] = c][2]
          ELSE d[c]]

set_color_calls(r, g, b, fail) ==
    LET o == set_color_order(r, g, b)
        n == IF fail = 0 THEN 3 ELSE fail
    IN [k \in 1..n |-> <<o[k][1], o[k][2], k # fail>>]

set_color_duty(d, r, g, b, fail) ==
    LET o == set_color_order(r, g, b)
        n == IF fail = 0 THEN 3 ELSE fail - 1
    IN [c \in Color |->
          IF \E k \in 1..n : o[k][1] = c
          THEN o[CHOOSE k \in 1..n : o[k][1] = c][2]
          ELSE d[c]]

\* the command-driven variant is not running
CmdIdle ==
    /\ index = 0
    /\ packet = << >>
    /\ command = <<"None">>
    /\ scenario = 0
    /\ npackets = 0
    /\ toggles = 0

\* state after construction: main up to the `loop'
Init ==
    /\ max_duty \in 1..MaxDuty
    /\ color_sequence = make_color_sequence(max_duty)
    /\ current_state = initial_state
    /\ target_state = color_sequence[1]
    /\ color_index = 0
    /\ pc = "loop"
    /\ duty = [c \in Color |-> 0]
    /\ set_calls = << >>
    /\ start_state = initial_state
    /\ steps = 0
    /\ CmdIdle

\* transition_color that drops set_color's Result instead of expect()ing it
transition_color_ignore_err(fail) ==
    LET t == transition_state(current_state, target_state) IN
    /\ set_calls' = set_color_calls(t.r, t.g, t.b, fail)
    /\ duty' = set_color_duty(duty, t.r, t.g, t.b, fail)
    /\ current_state' = t
    /\ steps' = steps + 1
    /\ pc' = pc

\* transition_color called on current_state; its result is assigned to
\* current_state unless set_color's Err makes expect() panic
transition_color(fail) ==
    LET t == transition_state(current_state, target_state) IN
    /\ set_calls' = set_color_calls(t.r, t.g, t.b, fail)
    /\ duty' = set_color_duty(duty, t.r, t.g, t.b, fail)
    /\ IF fail = 0
       THEN /\ current_state' = t
            /\ steps' = steps + 1
            /\ pc' = pc
       ELSE \* previous_state is &mut current_state: what the calls did to
            \* it stays, the assignment of the result does not happen
            /\ current_state' = previous_state_after(current_state, target_state, 3)
            /\ pc' = "panicked"
            /\ UNCHANGED steps

\* loop head: let target_state = &color_sequence[color_index]
TakeTarget ==
    /\ pc = "loop"
    /\ target_state' = color_sequence[color_index + 1]
    /\ start_state' = current_state
    /\ steps' = 0
    /\ pc' = "while"
    /\ UNCHANGED <<max_duty, color_sequence, current_state, color_index, duty, set_calls>>
    /\ UNCHANGED cmdVars

\* one iteration of `while current_state != *target_state'
WhileStep ==
    /\ pc = "while"
    /\ ~eq(current_state, target_state)
    /\ \E fail \in 0..3 : transition_color(fail)
    /\ UNCHANGED <<max_duty, color_sequence, target_state, color_index, start_state>>
    /\ UNCHANGED cmdVars

\* the index advanced after a single pass, `if' in place of `while'
Advance_unguarded ==
    /\ pc = "while"
    /\ color_index' = (color_index + 1) % Len(color_sequence)
    /\ pc' = "loop"
    /\ UNCHANGED <<max_duty, color_sequence, current_state, target_state, duty,
                   set_calls, start_state, steps>>
    /\ UNCHANGED cmdVars

\* the index wrapped one entry early: % (color_sequence.len() - 1)
Advance_short ==
    /\ pc = "while"
    /\ eq(current_state, target_state)
    /\ color_index' = (color_index + 1) % (Len(color_sequence) - 1)
    /\ pc' = "loop"
    /\ UNCHANGED <<max_duty, color_sequence, current_state, target_state, duty,
                   set_calls, start_state, steps>>
    /\ UNCHANGED cmdVars

\* while exit: color_index = (color_index + 1) % color_sequence.len()
Advance ==
    /\ pc = "while"
    /\ eq(current_state, target_state)
    /\ color_index' = (color_index + 1) % Len(color_sequence)
    /\ pc' = "loop"
    /\ UNCHANGED <<max_duty, color_sequence, current_state, target_state, duty,
                   set_calls, start_state, steps>>
    /\ UNCHANGED cmdVars

Next == TakeTarget \/ WhileStep \/ Advance

Spec == Init /\ [][Next]_vars

FairSpec == Spec /\ WF_vars(Next)

\* ------------------------------------------------------------------------
\* transition_color as a function of arbitrary (current, target) pairs
ColorStates(n) == [r : 0..n, g : 0..n, b : 0..n]

StepInit ==
    /\ max_duty = MaxVal
    /\ color_sequence = make_color_sequence(max_duty)
    /\ current_state \in ColorStates(MaxVal)
    /\ target_state \in ColorStates(MaxVal)
    /\ color_index = 0
    /\ pc = "step"
    /\ duty = [c \in Color |-> 0]
    /\ set_calls = << >>
    /\ start_state = current_state
    /\ steps = 0
    /\ CmdIdle

\* current_state = transition_color(&mut current_state, &target_state, ..),
\* called whether or not the target is reached
ApplyStep ==
    /\ pc = "step"
    /\ steps < MaxSteps
    /\ \E fail \in 0..3 : transition_color(fail)
    /\ UNCHANGED <<max_duty, color_sequence, target_state, color_index, start_state>>
    /\ UNCHANGED cmdVars

StepNext == ApplyStep

StepSpec == StepInit /\ [][StepNext]_vars

\* ------------------------------------------------------------------------
\* the command-driven variant: CommandDecoder, ColorSelector, DutyMapper and
\* the packet loop of ActuatorLoop

\* payloads as byte sequences
Bytes_TOGGLE == <<84, 79, 71, 71, 76, 69>>
Packets ==
    { Bytes_TOGGLE,                  \* "TOGGLE"
      Bytes_TOGGLE \o <<49>>,        \* "TOGGLE1"
      <<48>>,                        \* "0"
      <<49, 56, 48>>,                \* "180"
      <<50, 48, 48>>,                \* "200"
      <<50, 53, 54>>,                \* "256"
      <<97, 98, 99>>,                \* "abc"
      <<255>>,                       \* not UTF-8
      <<195, 169>> }                 \* U+00E9, UTF-8 but no command

\* the end-to-end packet sequence "TOGGLE", "0", "180"
Scenario == << Bytes_TOGGLE, <<48>>, <<49, 56, 48>> >>

InRange(x, lo, hi) == lo <= x /\ x <= hi
Cont(bytes, k) == k <= Len(bytes) /\ InRange(bytes[k], 128, 191)

\* decoding step 1: is the slice well-formed UTF-8 from position k on
RECURSIVE utf8_from(_, _)
utf8_from(bytes, k) ==
    IF k > Len(bytes) THEN TRUE
    ELSE LET b == bytes[k]
             n == Len(bytes) IN
         IF b <= 127 THEN utf8_from(bytes, k + 1)
         ELSE IF InRange(b, 194, 223)
              THEN Cont(bytes, k + 1) /\ utf8_from(bytes, k + 2)
         ELSE IF InRange(b, 224, 239)
              THEN /\ k + 2 <= n
                   /\ InRange(bytes[k + 1], IF b = 224 THEN 160 ELSE 128,
                                            IF b = 237 THEN 159 ELSE 191)
                   /\ Cont(bytes, k + 2)
                   /\ utf8_from(bytes, k + 3)
         ELSE IF InRange(b, 240, 244)
              THEN /\ k + 3 <= n
                   /\ InRange(bytes[k + 1], IF b = 240 THEN 144 ELSE 128,
                                            IF b = 244 THEN 143 ELSE 191)
                   /\ Cont(bytes, k + 2)
                   /\ Cont(bytes, k + 3)
                   /\ utf8_from(bytes, k + 4)
         ELSE FALSE

is_utf8(bytes) == utf8_from(bytes, 1)

\* decoding step 2: the text starts with the token
starts_with(text, token) ==
    /\ Len(text) >= Len(token)
    /\ SubSeq(text, 1, Len(token)) = token

\* decoding step 3: the whole text as an unsigned 8-bit integer; -1 = no parse.
\* ASCII digits only, at least one, value at most 255.
RECURSIVE parse_digits(_, _, _)
parse_digits(text, k, acc) ==
    IF k > Len(text) THEN acc
    ELSE IF ~InRange(text[k], 48, 57) THEN -1
    ELSE LET v == acc * 10 + (text[k] - 48) IN
         IF v > 255 THEN -1 ELSE parse_digits(text, k + 1, v)

parse_u8(text) == IF Len(text) = 0 THEN -1 ELSE parse_digits(text, 1, 0)

\* CommandDecoder: zero or one Command per payload
decode(bytes) ==
    IF ~is_utf8(bytes) THEN <<"None">>
    ELSE IF starts_with(bytes, Bytes_TOGGLE) THEN <<"Toggle">>
    ELSE IF parse_u8(bytes) >= 0 THEN <<"SetAngle", parse_u8(bytes)>>
    ELSE <<"None">>

\* intensity scaled by the u8 range instead of 180
angle_to_intensity_255(angle, m) == (angle * m) \div 255

\* DutyMapper: duty = angle * max_duty / 180, truncating (angle <= 255 and the
\* duties of the model keep the product far below 2^32)
angle_to_intensity(angle, m) == (angle * m) \div 180

\* toggle wrapping one state early
toggle_mod5(i) == (i + 1) % 5

\* ColorSelector::toggle
toggle(i) == (i + 1) % 6

\* ColorSelector::apply
apply(i, k) ==
    CASE k = 0 -> ColorState(i, 0, 0)
      [] k = 1 -> ColorState(0, i, 0)
      [] k = 2 -> ColorState(0, 0, i)
      [] k = 3 -> ColorState(i, i, 0)
      [] k = 4 -> ColorState(i, 0, i)
      [] k = 5 -> ColorState(0, i, i)

\* max_duty values the command-driven variant is run with
CmdMaxDuties == {MaxDuty, 1000}

CmdInit ==
    /\ max_duty \in CmdMaxDuties
    /\ color_sequence = make_color_sequence(max_duty)
    /\ current_state = initial_state
    /\ target_state = color_sequence[1]
    /\ color_index = 0
    /\ pc = "recv"
    /\ duty = [c \in Color |-> 0]
    /\ set_calls = << >>
    /\ start_state = initial_state
    /\ steps = 0
    /\ CmdIdle

\* one pass of the packet loop: receive, decode, act
HandlePacket ==
    /\ pc = "recv"
    /\ npackets < MaxPackets
    /\ \E p \in Packets, fail \in 0..3 :
         LET cmd == decode(p) IN
         /\ packet' = p
         /\ command' = cmd
         /\ npackets' = npackets + 1
         /\ scenario' = IF /\ scenario >= 0
                            /\ scenario < Len(Scenario)
                            /\ p = Scenario[scenario + 1]
                         THEN scenario + 1
                         ELSE -1
         /\ IF cmd[1] = "Toggle"
            THEN /\ fail = 0
                 /\ index' = toggle(index)
                 /\ toggles' = toggles + 1
                 /\ UNCHANGED <<duty, set_calls, pc>>
            ELSE IF cmd[1] = "SetAngle"
            THEN LET c == apply(angle_to_intensity(cmd[2], max_duty), index) IN
                 /\ set_calls' = set_color_calls(c.r, c.g, c.b, fail)
                 /\ duty' = set_color_duty(duty, c.r, c.g, c.b, fail)
                 /\ pc' = IF fail = 0 THEN "recv" ELSE "panicked"
                 /\ UNCHANGED <<index, toggles>>
            ELSE /\ fail = 0
                 /\ UNCHANGED <<index, toggles, duty, set_calls, pc>>
    /\ UNCHANGED max_duty
    /\ UNCHANGED autoVars

CmdNext == HandlePacket

CmdSpec == CmdInit /\ [][CmdNext]_vars

\* ------------------------------------------------------------------------
\* auxiliary notions of the properties
Dist(a, b) == Abs(a - b)
MaxDist(s, t) == Max(Dist(s.r, t.r), Max(Dist(s.g, t.g), Dist(s.b, t.b)))
Failed(calls) == \E k \in 1..Len(calls) : ~calls[k][3]
Triple(d) == ColorState(d["Red"], d["Green"], d["Blue"])

\* C1: repeated steps reach the target after exactly
\* max(|r-tr|, |g-tg|, |b-tb|) steps: current differs from the target before
\* that step and equals it at that step (9 steps from {1,6,9} to {0,0,0}).
C1_ExactSteps ==
    /\ eq(current_state, target_state) => steps = MaxDist(start_state, target_state)
    /\ ~eq(current_state, target_state) => steps < MaxDist(start_state, target_state)

OneUnit(old, tgt, new) ==
    IF old = tgt THEN new = old
    ELSE IF old > tgt THEN new = old - 1 /\ new >= tgt
    ELSE new = old + 1 /\ new <= tgt

\* C2: one step moves every channel exactly one unit toward its target (and
\* leaves a channel that is at its target alone).
C2_UnitStep ==
    [][steps' = steps + 1 =>
          \A c \in Color :
             OneUnit(get_color(current_state, c), get_color(target_state, c),
                        get_color(current_state', c))]_vars

\* C3: a step taken when current equals target on all three channels returns
\* a state equal to current.
C3_Idempotent ==
    [][(eq(current_state, target_state) /\ steps' = steps + 1)
          => eq(current_state', current_state)]_vars

C3_Witness ==
    /\ pc = "step"
    /\ steps >= 2
    /\ eq(current_state, target_state)
    /\ ~eq(start_state, target_state)
    /\ current_state.r > 0

\* C4: color_index changes only when current_state equals
\* color_sequence[color_index], and then to (color_index + 1) mod 8; it stays in
\* 0..7, the target in use is color_sequence[color_index], and the sequence
\* off, red, green, blue, yellow, magenta, cyan, white is never modified.
C4_Order ==
    LET m == max_duty IN
    color_sequence = << [r |-> 0, g |-> 0, b |-> 0], [r |-> m, g |-> 0, b |-> 0],
                        [r |-> 0, g |-> m, b |-> 0], [r |-> 0, g |-> 0, b |-> m],
                        [r |-> m, g |-> m, b |-> 0], [r |-> m, g |-> 0, b |-> m],
                        [r |-> 0, g |-> m, b |-> m], [r |-> m, g |-> m, b |-> m] >>

C4_IndexAdvance ==
    /\ [](/\ color_index \in 0..7
          /\ C4_Order
          /\ (pc = "while" => target_state = color_sequence[color_index + 1]))
    /\ [][/\ color_sequence' = color_sequence
          /\ (color_index' # color_index =>
                /\ current_state = color_sequence[color_index + 1]
                /\ color_index' = (color_index + 1) % 8)]_vars

C4_Witness ==
    /\ pc = "loop"
    /\ color_index = 0
    /\ current_state = color_sequence[8]
    /\ steps >= 1

\* C5: if no PWM write ever fails and the loop keeps running, current_state
\* equals each of the eight targets infinitely often, and the inner loop is
\* left again and again.
C5_EveryTargetReached ==
    \/ <>(pc = "panicked")
    \/ /\ \A i \in 1..8 : []<>(eq(current_state, color_sequence[i]))
       /\ []<>(pc = "loop")

C5_Witness ==
    /\ pc = "loop"
    /\ color_index = 7
    /\ eq(current_state, color_sequence[7])
    /\ steps = max_duty

\* C6: every value passed to set_duty is within [0, max_duty].
C6_DutyInRange ==
    \A k \in 1..Len(set_calls) : set_calls[k][2] \in 0..max_duty

C6_Witness ==
    /\ pc = "while"
    /\ color_index = 1
    /\ set_calls = << <<"Red", max_duty, TRUE>>, <<"Green", 0, TRUE>>, <<"Blue", 0, TRUE>> >>

\* C7: a set_duty error ends the control loop: from then on no step is
\* computed, no duty is written and color_index does not advance.
C7_WriteFailureFatal ==
    /\ [](Failed(set_calls) => pc = "panicked")
    /\ [][pc = "panicked" =>
            UNCHANGED <<pc, current_state, duty, set_calls, color_index, steps>>]_vars

C7_Witness ==
    /\ pc = "panicked"
    /\ Failed(set_calls)
    /\ Len(set_calls) = 2
    /\ color_index = 3

\* C8: after every successful iteration the triple last written to the
\* (red, green, blue) channels is the new current_state; before the first
\* write current_state is the initial state {1,6,9}.
C8_StateIsWritten ==
    pc # "panicked" =>
        IF set_calls = << >>
        THEN current_state = initial_state
        ELSE Triple(duty) = current_state

C8_Witness ==
    /\ pc = "while"
    /\ steps >= 1
    /\ current_state.g # current_state.b
    /\ Triple(duty) = current_state

Pattern == << {"Red"}, {"Green"}, {"Blue"},
             {"Red", "Green"}, {"Red", "Blue"}, {"Green", "Blue"} >>

\* C9: the selector index starts at 0, every Toggle sets it to
\* (index + 1) mod 6, it stays in 0..5 and is back at 0 after every sixth
\* toggle; a SetAngle writes the intensity i to exactly the channels of the
\* pattern of index k (0:R, 1:G, 2:B, 3:R+G, 4:R+B, 5:G+B) and 0 to the others.
C9_SelectorCycle ==
    /\ [](index \in 0..5 /\ index = toggles % 6)
    /\ [][(npackets' = npackets + 1 /\ command'[1] = "Toggle")
            => index' = (index + 1) % 6]_vars
    /\ [][(npackets' = npackets + 1 /\ command'[1] = "SetAngle" /\ pc' # "panicked")
            => \A c \in Color :
                  duty'[c] = IF c \in Pattern[index + 1]
                             THEN (command'[2] * max_duty) \div 180
                             ELSE 0]_vars

C9_Witness ==
    /\ toggles = 6
    /\ index = 0
    /\ npackets = 7
    /\ command = <<"SetAngle", 180>>
    /\ Triple(duty) = ColorState(max_duty, 0, 0)

NoCommand(p) ==
    \/ ~is_utf8(p)
    \/ ~starts_with(p, Bytes_TOGGLE) /\ parse_u8(p) < 0

Wrote(r, g, b) ==
    set_calls = << <<"Red", r, TRUE>>, <<"Green", g, TRUE>>, <<"Blue", b, TRUE>> >>

\* C10: with max_duty = 1000 and index 0 at the start, the packets "TOGGLE",
\* "0", "180" give index 1 after the first, written duties (0,0,0) after the
\* second and (0,1000,0) after the third; a payload that is not UTF-8, or is
\* neither a TOGGLE prefix nor a u8 integer, yields no command and changes
\* neither the index nor the duties.
C10_EndToEnd ==
    /\ []((max_duty = 1000 /\ pc # "panicked") =>
            /\ scenario = 1 => index = 1
            /\ scenario = 2 => Wrote(0, 0, 0) /\ Triple(duty) = ColorState(0, 0, 0)
            /\ scenario = 3 => Wrote(0, 1000, 0) /\ Triple(duty) = ColorState(0, 1000, 0))
    /\ [][(npackets' = npackets + 1 /\ NoCommand(packet')) =>
            /\ command' = <<"None">>
            /\ UNCHANGED <<index, duty, set_calls>>]_vars

C10_Witness ==
    /\ max_duty = 1000
    /\ scenario = 3
    /\ pc = "recv"
    /\ index = 1
    /\ Triple(duty) = ColorState(0, 1000, 0)

\* C11: for every payload decoded to SetAngle, the intensity
\* angle * max_duty / 180 that is computed and passed to set_duty lies within
\* [0, max_duty].
C11_IntensityInRange ==
    command[1] = "SetAngle" =>
        /\ angle_to_intensity(command[2], max_duty) \in 0..max_duty
        /\ \A k \in 1..Len(set_calls) : set_calls[k][2] <= max_duty

\* a call of transition_color: it returned (steps counts it) or it panicked
Called == steps' = steps + 1 \/ (pc # "panicked" /\ pc' = "panicked")

\* C12: whenever transition_color runs, the decrement path of transform is
\* taken only for a channel strictly above its target, so `value - 1' is never
\* evaluated with value = 0, and the increment path only for a channel strictly
\* below its target.
C12_NoUnderflow ==
    [][Called =>
         \A n \in 1..3 :
            LET c == set_color_order(0, 0, 0)[n][1]
                self == previous_state_after(current_state, target_state, n - 1)
                value == get_color(self, c)
                target == get_color(target_state, c)
                branch == transform_branch(self, target, c)
            IN /\ branch = "decrement" => (value > target /\ value # 0)
               /\ branch = "increment" => value < target
               /\ branch \in {"equal", "decrement", "increment"}]_vars

C12_Witness ==
    /\ pc = "while"
    /\ steps = 1
    /\ start_state = ColorState(max_duty, 0, 0)
    /\ target_state = ColorState(0, max_duty, 0)
    /\ current_state.r = 0
    /\ current_state.g = 1

Between(x, a, b) == (a <= x /\ x <= b) \/ (b <= x /\ x <= a)

\* C13: in every step and for every channel the new value lies between the
\* old value and the target (inclusive) and, if the old value differed from
\* the target, is strictly closer to it; a channel that is at its target stays
\* there as long as the target is the same.
C13_Monotonic ==
    [][steps' = steps + 1 =>
         \A c \in Color :
            LET old == get_color(current_state, c)
                new == get_color(current_state', c)
                target == get_color(target_state, c)
            IN /\ Between(new, old, target)
               /\ old # target => Dist(new, target) < Dist(old, target)
               /\ (old = target /\ target_state' = target_state) => new = target]_vars

C13_Witness ==
    /\ pc = "step"
    /\ steps >= 3
    /\ start_state.r > target_state.r
    /\ start_state.g + 1 < target_state.g
    /\ start_state.b = target_state.b
    /\ eq(current_state, target_state)

\* C14: during the transition toward one target, of two channels with
\* different non-zero distances to their targets the one with the smaller
\* distance reaches its target strictly earlier: at the step that brings the
\* farther channel to its target the nearer one is already there.
C14_NearerFirst ==
    [][steps' = steps + 1 =>
         \A c1, c2 \in Color :
            (/\ 0 < Dist(get_color(start_state, c1), get_color(target_state, c1))
             /\ Dist(get_color(start_state, c1), get_color(target_state, c1))
                  < Dist(get_color(start_state, c2), get_color(target_state, c2))
             /\ get_color(current_state, c2) # get_color(target_state, c2)
             /\ get_color(current_state', c2) = get_color(target_state, c2))
            => get_color(current_state, c1) = get_color(target_state, c1)]_vars

\* C15: transform, increment, decrement and compare_to_target leave the
\* ColorState they are called on as it was; in one step the three new values
\* are computed from the same pre-step state, each from its own channel's
\* value and target only; current_state changes only by the assignment of the
\* triple transition_color returns.
C15_ReceiverUnchanged ==
    [][/\ Called =>
            \A n \in 0..3 :
               previous_state_after(current_state, target_state, n) = current_state
       /\ steps' = steps + 1 =>
            \A c \in Color, x \in {0, max_duty} :
               LET target == get_color(target_state, c)
                   alone == with_color(ColorState(x, x, x), c, get_color(current_state, c))
               IN /\ get_color(current_state', c) = transform(current_state, target, c)
                  /\ get_color(current_state', c) = transform(alone, target, c)
       /\ current_state' # current_state =>
            /\ steps' = steps + 1
            /\ pc' # "panicked"
            /\ current_state' = transition_state(current_state, target_state)]_vars

C15_Witness ==
    /\ pc = "panicked"
    /\ steps >= 1
    /\ current_state # start_state
    /\ current_state.g < target_state.g
    /\ current_state.r = target_state.r

RGB == <<"Red", "Green", "Blue">>

\* C16: one step calls set_duty for red, green, blue in this order and stops
\* at the first failure: the channels from the failing one on keep their duty
\* (red fails: green and blue are not written; green fails: blue is not), and
\* current_state is then not updated to the step's result.
C16_StopAtFirstFailure ==
    /\ [](\A k \in 1..Len(set_calls) :
            /\ set_calls[k][1] = RGB[k]
            /\ ~set_calls[k][3] => k = Len(set_calls))
    /\ [][(pc # "panicked" /\ pc' = "panicked") =>
            LET n == Len(set_calls') IN
            /\ Failed(set_calls')
            /\ \A k \in 1..3 :
                  duty'[RGB[k]] = IF k < n THEN set_calls'[k][2] ELSE duty[RGB[k]]
            /\ current_state' = current_state]_vars
    /\ [][steps' = steps + 1 => (Len(set_calls') = 3 /\ ~Failed(set_calls'))]_vars

C16_Witness ==
    /\ pc = "panicked"
    /\ set_calls = << <<"Red", 0, FALSE>> >>
    /\ current_state = ColorState(max_duty, 0, 0)
    /\ target_state = ColorState(0, max_duty, 0)
    /\ Triple(duty) = current_state

\* C17: compare_to_target sets a channel's should_transform flag exactly when
\* the channel is strictly below its target (target_reached is value >=
\* target); the flags do not influence the state transition_color produces and
\* writes: a channel above its target has its flag false and is changed by
\* transform all the same.
C17_FlagsUnused ==
    [][Called =>
         \A c \in Color :
            LET value == get_color(current_state, c)
                target == get_color(target_state, c)
                flag == should_transform(compare_to_target(current_state, target_state), c)
                result == transform(current_state, target, c)
            IN /\ flag <=> value < target
               /\ target_reached(current_state, target, c) <=> value >= target
               /\ \A k \in 1..Len(set_calls') :
                     set_calls'[k][1] = c => set_calls'[k][2] = result
               /\ steps' = steps + 1 => get_color(current_state', c) = result
               /\ (steps' = steps + 1 /\ value > target) =>
                     (~flag /\ get_color(current_state', c) # value)]_vars

C17_Witness ==
    /\ pc = "step"
    /\ steps = 1
    /\ start_state.r > target_state.r
    /\ start_state.g < target_state.g
    /\ start_state.b = target_state.b
    /\ current_state.r = target_state.r
    /\ current_state.g = start_state.g + 1

====
